---------------------------- MODULE Spec2Model ----------------------------
(***************************************************************************)
(* Model of the libplacebo video output display                            *)
(* (modules/video_output/libplacebo/display.c).                            *)
(*                                                                         *)
(* State: the vout_display_sys_t of one display, the session's "current"   *)
(* flag, the life of the backend objects, and the trace of the external    *)
(* calls the last entry point made, each with the result it got.           *)
(* Operations: Open, Close, PictureRender, PictureDisplay, Control, and    *)
(* the two resource loaders LoadCustomLUT and LoadUserShader.              *)
(***************************************************************************)
EXTENDS Integers, Sequences, FiniteSets, TLC

VARIABLES
    phase,      \* life of the display: "init", "open", "failed", "closed", "crashed"
    sys,        \* vout_display_sys_t
    heap,       \* backend objects allocated and not yet freed (ghost)
    current,    \* the session is current on the calling thread
    log,        \* external calls made by the last entry point, in order
    last,       \* the last entry point: name, argument, result, caches before
    fmt,        \* the picture format Open settled on
    ncalls,     \* number of loader calls made so far (SpecLoader only)
    threads     \* the vout thread and the window thread (SpecThreads only)

vars == <<phase, sys, heap, current, log, last, fmt, ncalls, threads>>

----------------------------------------------------------------------------
(* Bounds *)

\* most regions a subpicture carries
MaxRegions == 2

\* most frames rendered one after the other (SpecFrames)
MaxFrames == 2
\* most loader calls in a run of SpecLoader
MaxCalls == 3
\* size of the swap-chain framebuffer
SurfW == 4
SurfH == 3
\* largest side of a source crop, and most applications of an orientation
MaxCrop == 2
MaxApply == 4

(* Program constants *)

\* plane_tex[4]
NumPlaneTex == 4

NULL == "<null>"

\* file paths handed to the loaders
Files == {"a", "b"}
Paths == {NULL, ""} \cup Files

----------------------------------------------------------------------------
(* External calls *)

\* One external call: the function, the kind of handle it takes, whether the
\* session was current when it ran, an index argument (-1: none), its
\* result, and a colour argument (<<>>: none).
Ev(op, h, cur, idx, ok, col) ==
    [op |-> op, h |-> h, cur |-> cur, idx |-> idx, ok |-> ok, col |-> col]

Call(c, op, h, idx, ok) ==
    [c EXCEPT !.log = Append(@, Ev(op, h, c.cur, idx, ok, <<>>))]

Clear(c, col) ==
    [c EXCEPT !.log = Append(@, Ev("pl_tex_clear", "gpu", c.cur, -1, TRUE, col))]

MsgErr(c) == Call(c, "msg_Err", "none", -1, TRUE)

RECURSIVE CountOp(_, _)
CountOp(l, op) ==
    IF l = <<>> THEN 0
    ELSE (IF Head(l).op = op THEN 1 ELSE 0) + CountOp(Tail(l), op)

RECURSIVE CountH(_, _)
CountH(l, h) ==
    IF l = <<>> THEN 0
    ELSE (IF Head(l).h = h THEN 1 ELSE 0) + CountH(Tail(l), h)

Ops(l) == {l[i].op : i \in DOMAIN l}

\* vlc_placebo_MakeCurrent
MakeCurrent(c, ok) ==
    LET c1 == Call(c, "vlc_placebo_MakeCurrent", "session", -1, ok)
    IN  IF ok THEN [c1 EXCEPT !.cur = TRUE] ELSE c1

\* vlc_placebo_ReleaseCurrent
ReleaseCurrent(c) ==
    [Call(c, "vlc_placebo_ReleaseCurrent", "session", -1, TRUE) EXCEPT !.cur = FALSE]

----------------------------------------------------------------------------
(* Resource loaders *)

\* The step of a load that fails first ("ok": none).
LoadOutcomes == {"open", "seek", "tell", "alloc", "read", "parse", "ok"}

\* What fseek does on the null stream LoadUserShader hands it when the file
\* cannot be opened: the process dies, or the call reports an error.
NullStream == {"crash", "error"}

\* The common tail of both loaders, from fseek to return: fs is open.
\*   kind: "lut" or "hook"; parse: the backend parser and the handle it takes.
ReadAndParse(c, kind, filepath, o, parse, h) ==
    LET c1 == Call(c, "fseek", "file", -1, o # "seek")
        c2 == Call(c1, "ftell", "file", -1, o # "tell")
        c3 == Call(c2, "rewind", "file", -1, TRUE)
        c4 == Call(c3, "vlc_alloc", "mem", -1, o # "alloc")
        c5 == Call(c4, "fread", "file", -1, o # "read")
        c6 == Call(c5, parse, h, -1, o # "parse")
        \* error: free(buffer); if (fs) fclose(fs);
        Error(x) == Call(Call(x, "free:buffer", "mem", -1, TRUE), "fclose", "file", -1, TRUE)
    IN  IF o = "seek" THEN Error(c1)
        ELSE IF o = "tell" THEN Error(c2)
        ELSE IF o = "alloc" THEN Error(c4)
        ELSE IF o = "read" THEN Error(c5)
        ELSE IF o = "parse"
             \* sys->lut = pl_lut_parse_cube(...) stores the null result
             THEN Error([c6 EXCEPT !.sys[kind] = NULL])
        ELSE \* the new object replaces the pointer; nothing frees the old one
             Call(Call([c6 EXCEPT !.sys[kind] = filepath, !.heap[kind] = @ + 1],
                       "fclose", "file", -1, TRUE), "free:buffer", "mem", -1, TRUE)

\* LoadCustomLUT without the test for the cached path
LoadCustomLUT_AlwaysReload(c, filepath, o) ==
    IF filepath = NULL \/ filepath = ""
    THEN [Call(c, "pl_lut_free", "none", -1, TRUE)
            EXCEPT !.sys.lut = NULL,
                   !.heap.lut = IF c.sys.lut # NULL THEN @ - 1 ELSE @]
    ELSE LET c1 == [c EXCEPT !.sys.lut_path = filepath]
             c2 == Call(c1, "vlc_fopen", "file", -1, o # "open")
         IN  IF o = "open"
             THEN Call(c2, "free:buffer", "mem", -1, TRUE)
             ELSE ReadAndParse(c2, "lut", filepath, o, "pl_lut_parse_cube", "ctx")

LoadCustomLUT(c, filepath, o) ==
    IF filepath = NULL \/ filepath = ""
    THEN [Call(c, "pl_lut_free", "none", -1, TRUE)
            EXCEPT !.sys.lut = NULL,
                   !.heap.lut = IF c.sys.lut # NULL THEN @ - 1 ELSE @]
    ELSE IF c.sys.lut_path # NULL /\ filepath = c.sys.lut_path
    THEN c  \* same LUT
    ELSE LET c1 == [c EXCEPT !.sys.lut_path = filepath]
             c2 == Call(c1, "vlc_fopen", "file", -1, o # "open")
         IN  IF o = "open"
             THEN Call(c2, "free:buffer", "mem", -1, TRUE)  \* error: fs is null
             ELSE ReadAndParse(c2, "lut", filepath, o, "pl_lut_parse_cube", "ctx")

LoadUserShader(c, filepath, o, ub) ==
    IF filepath = NULL \/ filepath = ""
    THEN [Call(c, "pl_mpv_user_shader_destroy", "none", -1, TRUE)
            EXCEPT !.sys.hook = NULL,
                   !.heap.hook = IF c.sys.hook # NULL THEN @ - 1 ELSE @]
    ELSE IF c.sys.hook_path # NULL /\ filepath = c.sys.hook_path
    THEN c  \* same shader
    ELSE LET c1 == [c EXCEPT !.sys.hook_path = filepath]
             c2 == Call(c1, "vlc_fopen", "file", -1, o # "open")
         IN  IF o = "open"
             THEN \* no test of fs: fseek runs on the null stream
                  LET c3 == Call(c2, "fseek", "nullfile", -1, FALSE)
                  IN  IF ub = "crash"
                      THEN [c3 EXCEPT !.crashed = TRUE]
                      ELSE Call(c3, "free:buffer", "mem", -1, TRUE)
             ELSE ReadAndParse(c2, "hook", filepath, o,
                               "pl_mpv_user_shader_parse", "gpu")

----------------------------------------------------------------------------
(* State *)

\* vlc_obj_calloc: every field zero
SysZero ==
    [pl |-> "null", renderer |-> "null",
     plane_tex |-> [i \in 0..(NumPlaneTex - 1) |-> FALSE],
     overlays |-> 0, overlay_tex |-> <<>>, num_overlays |-> 0,
     yuv_chroma_loc |-> "PL_CHROMA_UNKNOWN",
     lut |-> NULL, lut_path |-> NULL, lut_mode |-> "LUT_DISABLED",
     hook |-> NULL, hook_path |-> NULL,
     deband |-> [iterations |-> 0, grain |-> 0],
     dither |-> [method |-> 0],
     peak_detect |-> [smoothing_period |-> 0],
     upscaler |-> [kernel |-> NULL], downscaler |-> [kernel |-> NULL],
     params |-> [lut |-> NULL, num_hooks |-> 0,
                 deband_params |-> NULL, sigmoid_params |-> NULL,
                 color_map_params |-> NULL, dither_params |-> NULL,
                 peak_detect_params |-> NULL,
                 upscaler |-> NULL, downscaler |-> NULL]]

\* sys.overlays: the number of descriptors the block holds, 0 for the null
\* pointer. sys.overlay_tex: the block of texture pointers, one slot each
\* ("null", "tex", or "junk" for memory realloc left unset); <<>> for the
\* null pointer.

\* lut, hook: objects the backend parsers returned and nothing freed yet.
\* texLost: a texture no pointer of sys reaches any more.
\* blockLost: a block of memory no pointer of sys reaches any more.
HeapZero == [lut |-> 0, hook |-> 0, texLost |-> FALSE, blockLost |-> FALSE]

\* no format yet
FmtZero == [chroma |-> "none", planes |-> 0]

NoCall == [fn |-> "none", arg |-> NULL, ok |-> FALSE, reads |-> 0, parses |-> 0]

\* The two resource caches of a sys, and what is allocated for them.
Caches(s, hp) ==
    [lut |-> s.lut, lut_path |-> s.lut_path, lut_live |-> hp.lut,
     hook |-> s.hook, hook_path |-> s.hook_path, hook_live |-> hp.hook]

\* fn, arg, ret: the entry point, its argument, what it returned.
\* ok: it did not fail. same: it left sys and heap as they were.
\* pre: the resource caches before it. prev: the loader call before it.
LastZero ==
    [fn |-> "none", arg |-> NULL, ret |-> "none", ok |-> FALSE, same |-> TRUE,
     pre |-> Caches(SysZero, HeapZero), prev |-> NoCall]

\* The two threads that drive the display, both outside every entry point
\* and neither holding the session; no frame is open; the swap chain has
\* the size of the surface.
Threads == {"vout", "window"}

ThreadsZero ==
    [pc |-> [t \in Threads |-> 1], held |-> [t \in Threads |-> FALSE],
     failed |-> FALSE, fbo |-> NULL, size |-> <<SurfW, SurfH>>,
     want |-> <<SurfW, SurfH>>]

\* A context whose failed flag outlives the call (a static local)
Ctx_FailedIsStatic ==
    [sys |-> sys, heap |-> heap, fmt |-> fmt, cur |-> current, log |-> <<>>,
     crashed |-> FALSE, failed |-> (last.fn = "PictureRender" /\ ~last.ok),
     num_regions |-> 0]

\* The running context of an entry point.
Ctx == [sys |-> sys, heap |-> heap, fmt |-> fmt, cur |-> current, log |-> <<>>,
        crashed |-> FALSE, failed |-> FALSE, num_regions |-> 0]

Init ==
    /\ phase = "init"
    /\ sys = SysZero
    /\ heap = HeapZero
    /\ current = FALSE
    /\ log = <<>>
    /\ last = LastZero
    /\ fmt = FmtZero
    /\ ncalls = 0
    /\ threads = ThreadsZero

----------------------------------------------------------------------------
(* UpdateParams: the resources it loads (display.c:850-876) *)

LutModes == {"LUT_DISABLED", "LUT_NATIVE"}

\* pl_render_default_params: the parameter block of the backend. dflt is
\* what its pointers to the groups' default blocks are in the library the
\* display is built with: NULL, or the address of the default block.
PlRenderDefaultParams(dflt) ==
    [lut |-> NULL, num_hooks |-> 0,
     deband_params |-> dflt, sigmoid_params |-> dflt,
     color_map_params |-> dflt, dither_params |-> dflt,
     peak_detect_params |-> dflt, upscaler |-> dflt, downscaler |-> dflt]

\* UseDeband by the option alone
UseDeband_OptionOnly(in) == in.debanding

\* display.c:756-757
UseDeband(in) == (in.iterations > 0 \/ in.grain > 0) /\ in.debanding

\* display.c:778-779
UseDither(in) == in.dither >= 0

\* display.c:805-841, for which = "upscaler" and for which = "downscaler".
\* config: scale_config[preset]; custom: preset == SCALE_CUSTOM; kernel:
\* filter_fun[the kernel option]
Scaler(c, which, config, custom, kernel) ==
    LET own == IF which = "upscaler" THEN "&sys->upscaler" ELSE "&sys->downscaler"
        c1 == [c EXCEPT !.sys.params[which] = config]
        c2 == [c1 EXCEPT !.sys.params[which] = own,
                         !.sys[which] = [kernel |-> kernel]]
    IN  IF ~custom THEN c1
        ELSE IF kernel = NULL
        THEN [MsgErr(c2) EXCEPT !.sys.params[which] = NULL]
        ELSE c2

\* display.c:751-848: the groups of the render parameters
RenderParams(c, in) ==
    LET p0 == PlRenderDefaultParams(in.pl_default)
        p1 == [p0 EXCEPT
                 !.deband_params = IF UseDeband(in) THEN "&sys->deband" ELSE NULL,
                 !.sigmoid_params = IF in.sigmoid THEN "&sys->sigmoid" ELSE NULL,
                 !.color_map_params = "&sys->color_map",
                 !.dither_params = IF UseDither(in) THEN "&sys->dither" ELSE NULL]
        p2 == IF in.peak_period > 0
              THEN [p1 EXCEPT !.peak_detect_params = "&sys->peak_detect"]
              ELSE p1
        c1 == [c EXCEPT
                 !.sys.deband = [iterations |-> in.iterations, grain |-> in.grain],
                 !.sys.dither = [method |-> IF UseDither(in) THEN in.dither ELSE 0],
                 !.sys.peak_detect = [smoothing_period |-> in.peak_period],
                 !.sys.params = p2]
        c2 == Scaler(c1, "upscaler", in.up_config, in.up_custom, in.up_kernel)
    IN  Scaler(c2, "downscaler", in.down_config, in.down_custom, in.down_kernel)

\* in: the options of the configuration, and what the loaders meet:
\* lut_mode, lut_file, lut_o, shader_file, shader_o, ub
UpdateParams(c, in) ==
    LET c0 == RenderParams(c, in)
        c1 == LoadCustomLUT([c0 EXCEPT !.sys.lut_mode = in.lut_mode],
                            in.lut_file, in.lut_o)
        \* LUT_NATIVE, LUT_LINEAR, LUT_CONVERSION go through params; the
        \* others are applied elsewhere
        c2 == [c1 EXCEPT !.sys.params.lut =
                  IF c1.sys.lut # NULL /\ in.lut_mode = "LUT_NATIVE"
                  THEN c1.sys.lut ELSE NULL]
        c3 == LoadUserShader(c2, in.shader_file, in.shader_o, in.ub)
    IN  IF c3.crashed THEN c3
        ELSE [c3 EXCEPT !.sys.params.num_hooks =
                 IF c3.sys.hook # NULL THEN 1 ELSE 0]

----------------------------------------------------------------------------
(* Open *)

\* How Open settles on a chroma: the input format, a fallback of it, or
\* RGBA for sanity.
FormatChoices == {"input", "fallback", "rgba"}
Chromas == {"RGBA", "I420", "YUVA"}
\* The formats found and the chroma location of each
FormatsFound ==
    {<<"RGBA", "PL_CHROMA_UNKNOWN">>, <<"I420", "PL_CHROMA_UNKNOWN">>,
     <<"YUVA", "PL_CHROMA_LEFT">>}

\* vlc_fourcc_IsYUV, and the planes a picture of the chroma has
IsYUV(chroma) == chroma \in {"I420", "YUVA"}
Planes(chroma) == IF chroma = "RGBA" THEN 1 ELSE IF chroma = "I420" THEN 3 ELSE 4

\* display.c:138-156. in.chroma: the chroma of the supported format found;
\* in.chroma_loc: what vlc_placebo_ChromaLoc gives for it.
PickFormat(c, in) ==
    LET q(x, ok) == Call(x, "vlc_placebo_FormatSupported", "gpu", -1, ok)
        c1 == IF in.format = "input" THEN q(c, TRUE)
              ELSE IF in.format = "fallback" THEN q(q(c, FALSE), TRUE)
              ELSE Call(q(q(c, FALSE), FALSE), "msg_Warn", "none", -1, TRUE)
        chroma == IF in.format = "rgba" THEN "RGBA" ELSE in.chroma
    IN  [c1 EXCEPT !.fmt = [chroma |-> chroma, planes |-> Planes(chroma)],
                   !.sys.yuv_chroma_loc =
                      IF IsYUV(chroma) THEN in.chroma_loc ELSE "PL_CHROMA_UNKNOWN"]

\* OpenError that leaves the backend connection
OpenError_NoRelease(c) ==
    [Call(c, "pl_renderer_destroy", "renderer", -1, c.sys.renderer = "alive")
       EXCEPT !.sys.renderer = "null", !.failed = TRUE]

\* error: pl_renderer_destroy(&sys->renderer); if (pl) vlc_placebo_Release(pl)
\* The destroy call's result says whether there was a renderer to destroy.
OpenError(c) ==
    LET c1 == [Call(c, "pl_renderer_destroy", "renderer", -1,
                    c.sys.renderer = "alive")
                 EXCEPT !.sys.renderer = "null"]
        c2 == IF c1.sys.pl # "null"
              THEN [Call(c1, "vlc_placebo_Release", "session", -1, TRUE)
                      EXCEPT !.sys.pl = "released"]
              ELSE c1
    IN  [c2 EXCEPT !.failed = TRUE]

\* in: window, create, mc, renderer: what the steps of Open get; format,
\* chroma, chroma_loc: the format found; and the fields UpdateParams reads
OpenBody(c, in) ==
    IF ~in.window
    THEN OpenError(MsgErr(c))
    ELSE
    LET c1 == [Call(c, "vlc_placebo_Create", "none", -1, in.create)
                 EXCEPT !.sys.pl = IF in.create THEN "alive" ELSE "null"]
    IN  IF ~in.create THEN OpenError(c1)
    ELSE
    LET c2 == MakeCurrent(c1, in.mc)
    IN  IF ~in.mc THEN OpenError(c2)
    ELSE
    LET c3 == [Call(c2, "pl_renderer_create", "gpu", -1, in.renderer)
                 EXCEPT !.sys.renderer = IF in.renderer THEN "alive" ELSE "null"]
    IN  IF ~in.renderer THEN OpenError(c3)
    ELSE UpdateParams(PickFormat(ReleaseCurrent(c3), in), in)

\* The options as the module declares them (display.c:613-738), with a
\* library whose default block has every group on
ConfigDefault ==
    [debanding |-> FALSE, iterations |-> 1, grain |-> 1, sigmoid |-> TRUE,
     dither |-> -1, peak_period |-> 1, pl_default |-> "pl_default_block",
     up_config |-> NULL, up_custom |-> FALSE, up_kernel |-> "box",
     down_config |-> NULL, down_custom |-> FALSE, down_kernel |-> "box",
     lut_mode |-> "LUT_DISABLED", lut_file |-> NULL, lut_o |-> "ok",
     shader_file |-> NULL, shader_o |-> "ok", ub |-> "error"]

ConfigPaths == {NULL, "a"}

\* The runs of Open: a step that fails, the formats with no resource
\* configured, and the resources (one, the other, both) with an RGBA format.
\* What a failed step leaves undrawn is fixed, so that equal runs are equal.
OpenInputs ==
    LET base == [calloc |-> TRUE, window |-> TRUE, create |-> TRUE, mc |-> TRUE,
                 renderer |-> TRUE, format |-> "input", chroma |-> "RGBA",
                 chroma_loc |-> "PL_CHROMA_UNKNOWN"] @@ ConfigDefault
    IN  {[base EXCEPT !.calloc = FALSE], [base EXCEPT !.window = FALSE],
         [base EXCEPT !.create = FALSE], [base EXCEPT !.mc = FALSE],
         [base EXCEPT !.renderer = FALSE]}
        \cup
        {[base EXCEPT !.format = f, !.chroma = ch[1], !.chroma_loc = ch[2]] :
            f \in FormatChoices, ch \in FormatsFound}
        \cup
        {[base EXCEPT !.lut_file = "a", !.lut_o = lo, !.lut_mode = m] :
            lo \in LoadOutcomes, m \in LutModes}
        \cup
        {[base EXCEPT !.shader_file = "a", !.shader_o = so, !.ub = u] :
            so \in LoadOutcomes, u \in NullStream}
        \cup
        {[base EXCEPT !.lut_file = "a", !.lut_mode = "LUT_NATIVE",
                      !.shader_file = "a"]}

Returned(c, fn, arg, ret, ph) ==
    /\ sys' = c.sys
    /\ heap' = c.heap
    /\ current' = c.cur
    /\ log' = c.log
    /\ phase' = IF c.crashed THEN "crashed" ELSE ph
    /\ fmt' = c.fmt
    /\ last' = [fn |-> fn, arg |-> arg,
                ret |-> IF c.crashed THEN "crash" ELSE ret,
                ok |-> ~c.failed, same |-> (c.sys = sys /\ c.heap = heap),
                pre |-> Caches(sys, heap), prev |-> NoCall]
    /\ UNCHANGED <<ncalls, threads>>

Open ==
    /\ phase = "init"
    /\ \E in \in OpenInputs :
          IF ~in.calloc
          THEN Returned(Ctx, "Open", NULL, "VLC_ENOMEM", "failed")
          ELSE LET c == OpenBody(Ctx, in)
               IN  Returned(c, "Open", NULL,
                            IF c.failed THEN "VLC_EGENERIC" ELSE "VLC_SUCCESS",
                            IF c.failed THEN "failed" ELSE "open")

----------------------------------------------------------------------------
(* Close *)

RECURSIVE DestroyPlanes(_, _)
DestroyPlanes(c, i) ==
    IF i >= NumPlaneTex THEN c
    ELSE DestroyPlanes(
            [Call(c, "pl_tex_destroy", "gpu", i, c.sys.plane_tex[i])
               EXCEPT !.sys.plane_tex[i] = FALSE], i + 1)

RECURSIVE DestroyOverlays(_, _)
DestroyOverlays(c, i) ==
    IF i >= c.sys.num_overlays THEN c
    ELSE DestroyOverlays(
            [Call(c, "pl_tex_destroy", "gpu", i, c.sys.overlay_tex[i + 1] = "tex")
               EXCEPT !.sys.overlay_tex[i + 1] = "null"], i + 1)

CloseBody(c, mc) ==
    LET c1 == MakeCurrent(c, mc)
        c2 == IF mc
              THEN LET d == DestroyOverlays(DestroyPlanes(c1, 0), 0)
                   IN  ReleaseCurrent(
                         [Call(d, "pl_renderer_destroy", "renderer", -1,
                               d.sys.renderer = "alive")
                            EXCEPT !.sys.renderer = "null"])
              ELSE c1
        c3 == IF c2.sys.overlays # 0
              THEN [Call(Call(c2, "free:overlays", "mem", -1, TRUE),
                         "free:overlay_tex", "mem", -1, c2.sys.overlay_tex # <<>>)
                      EXCEPT !.sys.overlays = 0, !.sys.overlay_tex = <<>>,
                             !.heap.texLost =
                                @ \/ \E i \in DOMAIN c2.sys.overlay_tex :
                                        c2.sys.overlay_tex[i] = "tex"]
              ELSE c2
        c4 == [Call(Call(c3, "pl_lut_free", "none", -1, TRUE),
                    "free:lut_path", "mem", -1, TRUE)
                 EXCEPT !.sys.lut = NULL,
                        !.heap.lut = IF c3.sys.lut # NULL THEN @ - 1 ELSE @]
        c5 == [Call(Call(c4, "pl_mpv_user_shader_destroy", "none", -1, TRUE),
                    "free:hook_path", "mem", -1, TRUE)
                 EXCEPT !.sys.hook = NULL,
                        !.heap.hook = IF c4.sys.hook # NULL THEN @ - 1 ELSE @]
    IN  [Call(c5, "vlc_placebo_Release", "session", -1, TRUE)
           EXCEPT !.sys.pl = "released"]

Close ==
    /\ phase = "open"
    /\ \E mc \in BOOLEAN :
          Returned(CloseBody(Ctx, mc), "Close", NULL, "void", "closed")

----------------------------------------------------------------------------
(* PictureRender *)

Red == <<1, 0, 0, 1>>
TransparentBlack == <<0, 0, 0, 0>>

Min(a, b) == IF a < b THEN a ELSE b
Max(a, b) == IF a > b THEN a ELSE b

\* UploadPlanes that reports a rejected upload and goes on with the frame
RECURSIVE UploadPlanes_NoGotoDone(_, _, _, _)
UploadPlanes_NoGotoDone(c, i, n, failAt) ==
    IF i >= n THEN c
    ELSE IF i = failAt
    THEN UploadPlanes_NoGotoDone(
            MsgErr(Call(c, "pl_upload_plane", "gpu", i, FALSE)), i + 1, n, n)
    ELSE LET c1 == [Call(c, "pl_upload_plane", "gpu", i, TRUE)
                      EXCEPT !.sys.plane_tex[i] = TRUE]
             c2 == IF c.sys.yuv_chroma_loc # "PL_CHROMA_UNKNOWN" /\ i # 0 /\ i # 3
                   THEN Call(c1, "pl_chroma_location_offset", "none", i, TRUE)
                   ELSE c1
         IN  UploadPlanes_NoGotoDone(c2, i + 1, n, failAt)

\* UploadPlanes that shifts every plane of a picture of known siting
RECURSIVE UploadPlanes_ShiftEveryPlane(_, _, _, _)
UploadPlanes_ShiftEveryPlane(c, i, n, failAt) ==
    IF i >= n THEN c
    ELSE IF i = failAt
    THEN [MsgErr(Call(c, "pl_upload_plane", "gpu", i, FALSE)) EXCEPT !.failed = TRUE]
    ELSE LET c1 == [Call(c, "pl_upload_plane", "gpu", i, TRUE)
                      EXCEPT !.sys.plane_tex[i] = TRUE]
             c2 == IF c.sys.yuv_chroma_loc # "PL_CHROMA_UNKNOWN"
                   THEN Call(c1, "pl_chroma_location_offset", "none", i, TRUE)
                   ELSE c1
         IN  UploadPlanes_ShiftEveryPlane(c2, i + 1, n, failAt)

\* display.c:257-269. failAt: the plane whose upload the backend rejects
\* (n: none). A rejected upload leaves the slot's texture as it was.
RECURSIVE UploadPlanes(_, _, _, _)
UploadPlanes(c, i, n, failAt) ==
    IF i >= n THEN c
    ELSE IF i = failAt
    THEN [MsgErr(Call(c, "pl_upload_plane", "gpu", i, FALSE)) EXCEPT !.failed = TRUE]
    ELSE LET c1 == [Call(c, "pl_upload_plane", "gpu", i, TRUE)
                      EXCEPT !.sys.plane_tex[i] = TRUE]
             \* Matches only the chroma planes, never luma or alpha
             c2 == IF c.sys.yuv_chroma_loc # "PL_CHROMA_UNKNOWN" /\ i # 0 /\ i # 3
                   THEN Call(c1, "pl_chroma_location_offset", "none", i, TRUE)
                   ELSE c1
         IN  UploadPlanes(c2, i + 1, n, failAt)

\* display.c:287-290
FlipPlace(place, flipped, h) ==
    IF flipped
    THEN [place EXCEPT !.y = h - place.y, !.height = -place.height]
    ELSE place

\* pl_rect2d_normalize
Normalize(r) ==
    [x0 |-> Min(r.x0, r.x1), y0 |-> Min(r.y0, r.y1),
     x1 |-> Max(r.x0, r.x1), y1 |-> Max(r.y0, r.y1)]

\* ClearIfPartial that compares the rectangle as it is
ClearIfPartial_NoNormalize(c, place, w, h) ==
    LET full == [x0 |-> 0, y0 |-> 0, x1 |-> w, y1 |-> h]
        rect == [x0 |-> place.x, y0 |-> place.y,
                 x1 |-> place.x + place.width, y1 |-> place.y + place.height]
    IN  IF rect # full THEN Clear(c, TransparentBlack) ELSE c

\* display.c:406-413
ClearIfPartial(c, place, w, h) ==
    LET full == [x0 |-> 0, y0 |-> 0, x1 |-> w, y1 |-> h]
        norm == Normalize([x0 |-> place.x, y0 |-> place.y,
                           x1 |-> place.x + place.width,
                           y1 |-> place.y + place.height])
    IN  IF norm # full THEN Clear(c, TransparentBlack) ELSE c

\* display.c:357-370. ovlOk, texOk: what the two realloc calls return.
GrowOverlays(c, n, ovlOk, texOk) ==
    LET old == c.sys.overlay_tex
        grown == IF texOk
                 THEN [i \in 1..n |-> IF i <= Len(old) THEN old[i] ELSE "junk"]
                 ELSE <<>>
        c1 == [Call(Call(c, "realloc:overlays", "mem", n, ovlOk),
                    "realloc:overlay_tex", "mem", n, texOk)
                 EXCEPT !.sys.overlays = IF ovlOk THEN n ELSE 0,
                        !.sys.overlay_tex = grown,
                        \* a failed realloc returns null and leaves the old block
                        !.heap.blockLost = @ \/ (~ovlOk /\ c.sys.overlays # 0)
                                             \/ (~texOk /\ old # <<>>),
                        !.heap.texLost = @ \/ \E i \in DOMAIN old :
                                                 old[i] = "tex" /\ i > Len(grown)]
        first == c.sys.num_overlays
    IN  IF ~ovlOk \/ ~texOk
        THEN \* Unlikely OOM, just do whatever
             [c1 EXCEPT !.sys.num_overlays = 0, !.failed = TRUE]
        ELSE \* Clear the newly added texture pointers for pl_upload_plane
             [c1 EXCEPT !.sys.overlay_tex =
                           [i \in 1..n |-> IF i > first THEN "null" ELSE grown[i]],
                        !.sys.num_overlays = n,
                        !.heap.texLost = @ \/ \E i \in (first + 1)..n :
                                                 grown[i] = "tex"]

\* OverlayRect that takes no account of the flip
OverlayRect_NoYSign(place, r, flipped) ==
    <<place.x + r.i_x, place.y + r.i_y,
      place.x + r.i_x + r.w, place.y + r.i_y + r.h>>

\* display.c:381-388: the rectangle of the overlay of region r, whose
\* offset is (i_x, i_y) and whose visible size is w by h
OverlayRect(place, r, flipped) ==
    LET ysign == IF flipped THEN -1 ELSE 1
    IN  <<place.x + r.i_x, place.y + r.i_y * ysign,
          place.x + r.i_x + r.w, place.y + (r.i_y + r.h) * ysign>>

\* UploadRegions that stops at a rejected region and keeps the count
RECURSIVE UploadRegions_KeepCount(_, _, _, _, _)
UploadRegions_KeepCount(c, i, n, in, place) ==
    IF i >= n THEN [c EXCEPT !.num_regions = n]
    ELSE LET r == in.regions[i + 1]
             c0 == [Call(c, "subpicture_region", "none", i, TRUE)
                      EXCEPT !.log[Len(c.log) + 1].col = <<r.i_x, r.i_y, r.w, r.h>>]
             c1 == [Call(c0, "overlay_desc", "none", i, TRUE)
                      EXCEPT !.log[Len(c0.log) + 1].col =
                                OverlayRect(place, r, in.flipped)]
         IN  IF i = in.regionFail
             THEN [MsgErr(Call(c1, "pl_upload_plane:overlay", "gpu", i, FALSE))
                     EXCEPT !.num_regions = n]
             ELSE UploadRegions_KeepCount(
                     [Call(c1, "pl_upload_plane:overlay", "gpu", i, TRUE)
                        EXCEPT !.sys.overlay_tex[i + 1] = "tex"],
                     i + 1, n, in, place)

\* display.c:372-399. in.regions: the regions; in.regionFail: the region
\* whose upload the backend rejects (n: none). Gives the context with
\* num_regions as the loop leaves it.
RECURSIVE UploadRegions(_, _, _, _, _)
UploadRegions(c, i, n, in, place) ==
    IF i >= n THEN [c EXCEPT !.num_regions = n]
    ELSE LET r == in.regions[i + 1]
             c0 == [Call(c, "subpicture_region", "none", i, TRUE)
                      EXCEPT !.log[Len(c.log) + 1].col = <<r.i_x, r.i_y, r.w, r.h>>]
             c1 == [Call(c0, "overlay_desc", "none", i, TRUE)
                      EXCEPT !.log[Len(c0.log) + 1].col =
                                OverlayRect(place, r, in.flipped)]
         IN  IF i = in.regionFail
             THEN [MsgErr(Call(c1, "pl_upload_plane:overlay", "gpu", i, FALSE))
                     EXCEPT !.num_regions = i]  \* stop here
             ELSE UploadRegions(
                     [Call(c1, "pl_upload_plane:overlay", "gpu", i, TRUE)
                        EXCEPT !.sys.overlay_tex[i + 1] = "tex"],
                     i + 1, n, in, place)

\* display.c:351-404. in.sub: the subpicture's regions (-1: no subpicture).
Overlays(c, in, place) ==
    IF in.sub < 0 THEN c
    ELSE LET c0 == Call(c, "subpicture:num_regions", "none", in.sub, TRUE)
             c1 == IF in.sub > c.sys.num_overlays
                   THEN GrowOverlays(c0, in.sub, in.ovlOk, in.texOk)
                   ELSE c0
         IN  IF c1.failed THEN c1
             ELSE UploadRegions(c1, 0, in.sub, in, place)

\* display.c:428-433. The render call's index is target.num_overlays.
Dispatch(c, in) ==
    LET c1 == Call(c, "pl_render_image", "renderer", c.num_regions, in.render)
    IN  IF ~in.render THEN [MsgErr(c1) EXCEPT !.failed = TRUE] ELSE c1

\* Done without the error colour
Done_NoErrorClear(c, in) ==
    LET c2 == Call(c, "pl_swapchain_submit_frame", "swapchain", -1, in.submit)
    IN  ReleaseCurrent(IF ~in.submit THEN MsgErr(c2) ELSE c2)

\* Done that submits only the frames that did not fail
Done_NoSubmitOnFailure(c, in) ==
    IF c.failed THEN ReleaseCurrent(Clear(c, Red))
    ELSE LET c2 == Call(c, "pl_swapchain_submit_frame", "swapchain", -1, in.submit)
         IN  ReleaseCurrent(IF ~in.submit THEN MsgErr(c2) ELSE c2)

\* display.c:435-443
Done(c, in) ==
    LET c1 == IF c.failed THEN Clear(c, Red) ELSE c
        c2 == Call(c1, "pl_swapchain_submit_frame", "swapchain", -1, in.submit)
    IN  ReleaseCurrent(IF ~in.submit THEN MsgErr(c2) ELSE c2)

\* display.c:272-325: the target of the frame, its flip state as the
\* swap-chain gave it and its crop, the placement mirrored on a flipped one
TargetCrop(c, in, place) ==
    LET c1 == Call(c, "frame.flipped", "swapchain", -1, in.flipped)
    IN  [Call(c1, "target.crop", "none", -1, TRUE)
           EXCEPT !.log[Len(c1.log) + 1].col =
                     <<place.x, place.y, place.x + place.width,
                       place.y + place.height>>]

\* display.c:234-433, from the planes to the render call; a failure goes
\* straight to done.
FrameSteps(c, in) ==
    LET c1 == UploadPlanes(c, 0, in.n, in.planeFail)
        place == FlipPlace(in.place, in.flipped, SurfH)
        c2 == IF c1.failed THEN c1 ELSE Overlays(TargetCrop(c1, in, place), in, place)
        c3 == IF c2.failed THEN c2 ELSE ClearIfPartial(c2, place, SurfW, SurfH)
    IN  IF c3.failed THEN c3 ELSE Dispatch(c3, in)

\* PictureRender that goes on with a frame the swap-chain declined
PictureRenderBody_IgnoreDecline(c, in) ==
    LET c1 == MakeCurrent(c, in.mc)
    IN  IF ~in.mc THEN c1
        ELSE LET c2 == Call(c1, "pl_swapchain_start_frame", "swapchain", -1, in.start)
             IN  Done(FrameSteps(c2, in), in)

PictureRenderBody(c, in) ==
    LET c1 == MakeCurrent(c, in.mc)
    IN  IF ~in.mc THEN c1
        ELSE LET c2 == Call(c1, "pl_swapchain_start_frame", "swapchain", -1, in.start)
             IN  IF ~in.start
                 THEN ReleaseCurrent(c2)  \* Probably benign error, ignore it
                 ELSE Done(FrameSteps(c2, in), in)

\* What vout_display_PlacePicture gives for the surface: the picture fills
\* it, or leaves a band free.
PlaceSet ==
    {[x |-> 0, y |-> 0, width |-> SurfW, height |-> SurfH],
     [x |-> 0, y |-> 1, width |-> SurfW, height |-> SurfH - 1]}

\* The regions of a subpicture: offset and visible size of each
RegionSet ==
    {[i_x |-> 0, i_y |-> 0, w |-> 1, h |-> 1],
     [i_x |-> 1, i_y |-> 1, w |-> 2, h |-> 1]}

\* Subpictures of k regions: all of one geometry, or of both in turn
Subpictures(k) ==
    IF k <= 0 THEN {<<>>}
    ELSE {[i \in 1..k |-> r] : r \in RegionSet}
         \cup {[i \in 1..k |-> IF i % 2 = 1
                                THEN [i_x |-> 1, i_y |-> 1, w |-> 2, h |-> 1]
                                ELSE [i_x |-> 0, i_y |-> 0, w |-> 1, h |-> 1]]}

\* The results the calls of one PictureRender get: a frame refused, a plane
\* rejected, the overlay storage not grown, a region rejected, the
\* geometries of a frame that goes well, and the failures of its end. What a
\* call that is not reached would have returned is fixed, so that equal runs
\* are equal.
RenderInputs(s, n) ==
    LET base == [mc |-> TRUE, start |-> TRUE, n |-> n, planeFail |-> n,
                 flipped |-> FALSE,
                 place |-> [x |-> 0, y |-> 0, width |-> SurfW, height |-> SurfH],
                 sub |-> -1, regions |-> <<>>,
                 ovlOk |-> TRUE, texOk |-> TRUE, regionFail |-> 0,
                 render |-> TRUE, submit |-> TRUE]
        plain(k) == [i \in 1..k |-> [i_x |-> 0, i_y |-> 0, w |-> 1, h |-> 1]]
        Grow(k) == IF k > s.num_overlays
                   THEN {<<FALSE, FALSE>>, <<FALSE, TRUE>>, <<TRUE, FALSE>>}
                   ELSE {}
    IN  {[base EXCEPT !.mc = FALSE], [base EXCEPT !.start = FALSE]}
        \cup
        {[base EXCEPT !.planeFail = k, !.submit = sb] :
            k \in 0..(n - 1), sb \in BOOLEAN}
        \cup
        UNION {{[base EXCEPT !.sub = k, !.regions = plain(k),
                             !.ovlOk = g[1], !.texOk = g[2], !.submit = sb] :
                  g \in Grow(k), sb \in BOOLEAN} : k \in 1..MaxRegions}
        \cup
        UNION {{[base EXCEPT !.sub = k, !.regions = plain(k), !.regionFail = rf,
                             !.render = r] :
                  rf \in 0..(k - 1), r \in BOOLEAN} : k \in 1..MaxRegions}
        \cup
        UNION {{[base EXCEPT !.sub = k, !.regions = rs, !.regionFail = Max(k, 0),
                             !.flipped = fl, !.place = pl] :
                  rs \in Subpictures(k), fl \in BOOLEAN, pl \in PlaceSet} :
               k \in (-1)..MaxRegions}
        \cup
        {[base EXCEPT !.place = pl, !.render = r, !.submit = sb] :
            pl \in PlaceSet, r \in BOOLEAN, sb \in BOOLEAN}

PictureRender ==
    /\ phase = "open"
    /\ \E in \in RenderInputs(sys, fmt.planes) :
          Returned(PictureRenderBody(Ctx, in), "PictureRender", NULL, "void", phase)

----------------------------------------------------------------------------
(* PictureDisplay, Control *)

PictureDisplayBody(c, mc) ==
    LET c1 == MakeCurrent(c, mc)
    IN  IF mc
        THEN ReleaseCurrent(Call(c1, "pl_swapchain_swap_buffers", "swapchain", -1, TRUE))
        ELSE c1

PictureDisplay ==
    /\ phase = "open"
    /\ \E mc \in BOOLEAN :
          Returned(PictureDisplayBody(Ctx, mc), "PictureDisplay", NULL, "void", phase)

GeometryQueries ==
    {"VOUT_DISPLAY_CHANGE_DISPLAY_SIZE", "VOUT_DISPLAY_CHANGE_DISPLAY_FILLED",
     "VOUT_DISPLAY_CHANGE_SOURCE_ASPECT", "VOUT_DISPLAY_CHANGE_SOURCE_CROP",
     "VOUT_DISPLAY_CHANGE_ZOOM"}
Queries == GeometryQueries \cup {"other"}

\* ControlBody that reports a resize the swap-chain did not follow
ControlBody_FailOnMismatch(c, query, mc, resized) ==
    IF query \in GeometryQueries
    THEN IF query = "VOUT_DISPLAY_CHANGE_DISPLAY_SIZE"
         THEN LET c1 == MakeCurrent(c, mc)
                  c2 == ReleaseCurrent(
                          Call(c1, "pl_swapchain_resize", "swapchain", -1, resized))
              IN  IF ~mc THEN c1
                  ELSE IF ~resized THEN [c2 EXCEPT !.failed = TRUE] ELSE c2
         ELSE c
    ELSE [MsgErr(c) EXCEPT !.failed = TRUE]

\* ControlBody that takes every request for a change of size
ControlBody_AllAreResizes(c, query, mc, resized) ==
    LET c1 == MakeCurrent(c, mc)
    IN  IF ~mc THEN c1
        ELSE ReleaseCurrent(Call(c1, "pl_swapchain_resize", "swapchain", -1, resized))

\* resized: the swap-chain took the requested size
ControlBody(c, query, mc, resized) ==
    IF query \in GeometryQueries
    THEN IF query = "VOUT_DISPLAY_CHANGE_DISPLAY_SIZE"
         THEN LET c1 == MakeCurrent(c, mc)
              IN  IF ~mc THEN c1  \* ignore errors
                  ELSE ReleaseCurrent(
                         Call(c1, "pl_swapchain_resize", "swapchain", -1, resized))
         ELSE c
    ELSE [MsgErr(c) EXCEPT !.failed = TRUE]

\* The runs of Control: what MakeCurrent and the resize give is drawn only
\* where Control calls them.
ControlInputs ==
    {<<q, TRUE, TRUE>> : q \in Queries}
    \cup {<<"VOUT_DISPLAY_CHANGE_DISPLAY_SIZE", mc, rs>> :
             mc \in BOOLEAN, rs \in BOOLEAN}

Control ==
    /\ phase = "open"
    /\ \E in \in ControlInputs :
          LET c == ControlBody(Ctx, in[1], in[2], in[3])
          IN  Returned(c, "Control", in[1],
                       IF c.failed THEN "VLC_EGENERIC" ELSE "VLC_SUCCESS", phase)

----------------------------------------------------------------------------
(* The loaders called again and again on one display, as UpdateParams      *)
(* would on every change of the parameters.                                *)

InitLoader ==
    /\ phase = "open"
    /\ sys = [SysZero EXCEPT !.pl = "alive", !.renderer = "alive"]
    /\ heap = HeapZero
    /\ current = FALSE
    /\ log = <<>>
    /\ last = LastZero
    /\ fmt = FmtZero
    /\ ncalls = 0
    /\ threads = ThreadsZero

\* What the call before this one of the same loader was.
PrevCall(fn) ==
    IF last.fn = fn
    THEN [fn |-> last.fn, arg |-> last.arg, ok |-> last.ok,
          reads |-> CountOp(log, "fread"),
          parses |-> CountH(log, "ctx") + CountH(log, "gpu")]
    ELSE NoCall

Loaded(c, fn, path) ==
    /\ sys' = c.sys
    /\ heap' = c.heap
    /\ current' = c.cur
    /\ log' = c.log
    /\ phase' = IF c.crashed THEN "crashed" ELSE phase
    /\ last' = [fn |-> fn, arg |-> path,
                ret |-> IF c.crashed THEN "crash" ELSE "void",
                ok |-> \E i \in DOMAIN c.log :
                          c.log[i].h \in {"ctx", "gpu"} /\ c.log[i].ok,
                same |-> (c.sys = sys /\ c.heap = heap),
                pre |-> Caches(sys, heap), prev |-> PrevCall(fn)]
    /\ UNCHANGED fmt
    /\ ncalls' = ncalls + 1
    /\ UNCHANGED threads

CallLoadCustomLUT ==
    /\ phase = "open"
    /\ ncalls < MaxCalls
    /\ \E path \in Paths, o \in LoadOutcomes :
          Loaded(LoadCustomLUT(Ctx, path, o), "LoadCustomLUT", path)

CallLoadUserShader ==
    /\ phase = "open"
    /\ ncalls < MaxCalls
    /\ \E path \in Paths, o \in LoadOutcomes, ub \in NullStream :
          Loaded(LoadUserShader(Ctx, path, o, ub), "LoadUserShader", path)

NextLoader == CallLoadCustomLUT \/ CallLoadUserShader

SpecLoader == InitLoader /\ [][NextLoader]_vars

----------------------------------------------------------------------------
(* UpdateParams on the configurations a user can set, called as Open calls *)
(* it: once, on a display whose backend and renderer are created.          *)

\* A scaler option: a preset of the table, which may be empty, or a custom
\* filter, whose kernel may be empty
ScalerOptions ==
    {<<cfg, FALSE, "box">> : cfg \in {NULL, "pl_filter_preset"}}
    \cup {<<NULL, TRUE, k>> : k \in {NULL, "box"}}

ParamInputs ==
    {[ConfigDefault EXCEPT
         !.debanding = db, !.iterations = it, !.grain = gr, !.sigmoid = sg,
         !.dither = dm, !.peak_period = pp, !.pl_default = df,
         !.up_config = up[1], !.up_custom = up[2], !.up_kernel = up[3],
         !.down_config = dn[1], !.down_custom = dn[2], !.down_kernel = dn[3],
         !.shader_file = sh] :
        db \in BOOLEAN, it \in {0, 1}, gr \in {0, 1}, sg \in BOOLEAN,
        dm \in {-1, 0, 1}, pp \in {0, 1}, df \in {NULL, "pl_default_block"},
        up \in ScalerOptions, dn \in ScalerOptions, sh \in ConfigPaths}

InitParams ==
    /\ phase = "params"
    /\ sys = [SysZero EXCEPT !.pl = "alive", !.renderer = "alive"]
    /\ heap = HeapZero
    /\ current = FALSE
    /\ log = <<>>
    /\ last = LastZero
    /\ fmt = [chroma |-> "RGBA", planes |-> 1]
    /\ ncalls = 0
    /\ threads = ThreadsZero

CallUpdateParams ==
    /\ phase = "params"
    /\ \E in \in ParamInputs :
          LET c == UpdateParams(Ctx, in)
          IN  /\ sys' = c.sys
              /\ heap' = c.heap
              /\ current' = c.cur
              /\ log' = c.log
              /\ phase' = "open"
              /\ last' = [LastZero EXCEPT !.fn = "UpdateParams", !.arg = in,
                                          !.ret = "void", !.ok = TRUE, !.same = FALSE]
              /\ UNCHANGED <<fmt, ncalls, threads>>

NextParams == CallUpdateParams

SpecParams == InitParams /\ [][NextParams]_vars

----------------------------------------------------------------------------
(* The orientation of the source (display.c:292-320), applied to a source  *)
(* description over and over.                                              *)

Orientations ==
    {"ORIENT_NORMAL", "ORIENT_HFLIPPED", "ORIENT_VFLIPPED", "ORIENT_ROTATED_90",
     "ORIENT_ROTATED_180", "ORIENT_ROTATED_270", "ORIENT_TRANSPOSED",
     "ORIENT_ANTI_TRANSPOSED"}

\* SWAP(img.crop.x0, img.crop.x1), SWAP(img.crop.y0, img.crop.y1)
SwapX(img) == [img EXCEPT !.crop.x0 = img.crop.x1, !.crop.x1 = img.crop.x0]
SwapY(img) == [img EXCEPT !.crop.y0 = img.crop.y1, !.crop.y1 = img.crop.y0]

\* Orient in which a quarter turn is added to the rotation the source has
Orient_RotationAdds(img, o) ==
    LET turn == [r \in {"PL_ROTATION_0", "PL_ROTATION_90", "PL_ROTATION_180",
                        "PL_ROTATION_270"} |->
                    CASE r = "PL_ROTATION_0" -> "PL_ROTATION_90"
                      [] r = "PL_ROTATION_90" -> "PL_ROTATION_180"
                      [] r = "PL_ROTATION_180" -> "PL_ROTATION_270"
                      [] OTHER -> "PL_ROTATION_0"]
    IN  CASE o = "ORIENT_HFLIPPED" -> SwapX(img)
          [] o = "ORIENT_VFLIPPED" -> SwapY(img)
          [] o = "ORIENT_ROTATED_90" -> [img EXCEPT !.rotation = turn[@]]
          [] o = "ORIENT_ROTATED_180" -> [img EXCEPT !.rotation = "PL_ROTATION_180"]
          [] o = "ORIENT_ROTATED_270" -> [img EXCEPT !.rotation = "PL_ROTATION_270"]
          [] o = "ORIENT_TRANSPOSED" -> SwapY([img EXCEPT !.rotation = "PL_ROTATION_90"])
          [] o = "ORIENT_ANTI_TRANSPOSED" ->
                SwapX([img EXCEPT !.rotation = "PL_ROTATION_90"])
          [] OTHER -> img

\* switch (vd->fmt->orientation)
Orient(img, o) ==
    CASE o = "ORIENT_HFLIPPED" -> SwapX(img)
      [] o = "ORIENT_VFLIPPED" -> SwapY(img)
      [] o = "ORIENT_ROTATED_90" -> [img EXCEPT !.rotation = "PL_ROTATION_90"]
      [] o = "ORIENT_ROTATED_180" -> [img EXCEPT !.rotation = "PL_ROTATION_180"]
      [] o = "ORIENT_ROTATED_270" -> [img EXCEPT !.rotation = "PL_ROTATION_270"]
      [] o = "ORIENT_TRANSPOSED" -> SwapY([img EXCEPT !.rotation = "PL_ROTATION_90"])
      [] o = "ORIENT_ANTI_TRANSPOSED" ->
            SwapX([img EXCEPT !.rotation = "PL_ROTATION_90"])
      [] OTHER -> img

RECURSIVE OrientTimes(_, _, _)
OrientTimes(img, o, n) == IF n = 0 THEN img ELSE OrientTimes(Orient(img, o), o, n - 1)

\* display.c:234-244: the source description of a picture whose visible
\* region is w by h at (x, y); the rotation of a new description is none
SourceImage(x, y, w, h) ==
    [crop |-> [x0 |-> x, y0 |-> y, x1 |-> x + w, y1 |-> y + h],
     rotation |-> "PL_ROTATION_0"]

SourceImages ==
    {SourceImage(x, y, w, h) : x \in 0..1, y \in 0..1, w \in 1..MaxCrop, h \in 1..MaxCrop}

InitOrient ==
    /\ phase = "orient"
    /\ sys = SysZero
    /\ heap = HeapZero
    /\ current = FALSE
    /\ log = <<>>
    /\ last = LastZero
    /\ fmt = FmtZero
    /\ ncalls = 0
    /\ threads = ThreadsZero

\* last.arg: the description, the orientation and how often it is applied;
\* last.ret: the description that comes out
ApplyOrientation ==
    /\ phase = "orient"
    /\ \E img \in SourceImages, o \in Orientations, n \in 1..MaxApply :
          last' = [LastZero EXCEPT
                     !.fn = "Orient",
                     !.arg = [img |-> img, orientation |-> o, times |-> n],
                     !.ret = OrientTimes(img, o, n), !.ok = TRUE]
    /\ UNCHANGED <<phase, sys, heap, current, log, fmt, ncalls, threads>>

NextOrient == ApplyOrientation

SpecOrient == InitOrient /\ [][NextOrient]_vars

----------------------------------------------------------------------------
(* Two threads over one display: the vout thread calls PictureRender and   *)
(* PictureDisplay in turn, the window thread reports display sizes to      *)
(* Control. Every external call is one step (display.c:217-500).           *)

\* the display sizes a notification carries (display.c:477-478)
Sizes == {<<w, h>> : w \in {SurfW, SurfW + 1}, h \in {SurfH, SurfH + 1}}

\* A vout thread that gives the session up as soon as the frame has started.
VoutProgram_ReleaseAfterStart ==
    <<"vlc_placebo_MakeCurrent", "pl_swapchain_start_frame",
      "vlc_placebo_ReleaseCurrent", "pl_upload_plane", "pl_render_image",
      "pl_tex_clear", "pl_swapchain_submit_frame",
      "vlc_placebo_MakeCurrent", "pl_swapchain_swap_buffers",
      "vlc_placebo_ReleaseCurrent">>

\* PictureRender (display.c:225-443) followed by PictureDisplay
\* (display.c:450-453), as the external calls they make in order.
VoutProgram ==
    <<"vlc_placebo_MakeCurrent", "pl_swapchain_start_frame",
      "pl_upload_plane", "pl_render_image", "pl_tex_clear",
      "pl_swapchain_submit_frame", "vlc_placebo_ReleaseCurrent",
      "vlc_placebo_MakeCurrent", "pl_swapchain_swap_buffers",
      "vlc_placebo_ReleaseCurrent">>

\* Control on VOUT_DISPLAY_CHANGE_DISPLAY_SIZE (display.c:477-483).
WindowProgram ==
    <<"vd->cfg->display", "vlc_placebo_MakeCurrent", "pl_swapchain_resize",
      "vlc_placebo_ReleaseCurrent">>

Program(t) == IF t = "vout" THEN VoutProgram ELSE WindowProgram

\* the call thread t makes next
At(t, op) == Program(t)[threads.pc[t]] = op

\* the first place after i where the program calls op
After(prog, i, op) ==
    CHOOSE j \in (i + 1)..Len(prog) :
        /\ prog[j] = op
        /\ \A k \in (i + 1)..(j - 1) : prog[k] # op

\* the entry point returns and the thread calls its next one
Wrap(prog, i) == IF i > Len(prog) THEN 1 ELSE i

Goto(t, i) == [threads EXCEPT !.pc[t] = Wrap(Program(t), i)]

\* The session as a lock that is not reentrant: it can be taken only while
\* no thread holds it.
SessionFree == \A u \in Threads : ~threads.held[u]

ThreadFrame == UNCHANGED <<phase, sys, heap, current, log, last, fmt, ncalls>>

\* vlc_placebo_MakeCurrent succeeds, or fails and the entry point returns
\* (display.c:225-226, 450, 479-480); on a held session the caller waits.
ThreadMakeCurrent(t) ==
    /\ At(t, "vlc_placebo_MakeCurrent")
    /\ \/ /\ SessionFree
          /\ threads' = [Goto(t, threads.pc[t] + 1) EXCEPT !.held[t] = TRUE]
       \/ threads' = Goto(t, After(Program(t), threads.pc[t],
                                   "vlc_placebo_ReleaseCurrent") + 1)
    /\ ThreadFrame

\* display.c:229-232
ThreadStartFrame(t) ==
    /\ At(t, "pl_swapchain_start_frame")
    /\ \/ threads' = [Goto(t, threads.pc[t] + 1) EXCEPT
                         !.fbo = threads.size, !.failed = FALSE]
       \/ threads' = Goto(t, After(Program(t), threads.pc[t],
                                   "vlc_placebo_ReleaseCurrent"))
    /\ ThreadFrame

\* display.c:257-263
ThreadUpload(t) ==
    /\ At(t, "pl_upload_plane")
    /\ \/ threads' = Goto(t, threads.pc[t] + 1)
       \/ threads' = [Goto(t, After(Program(t), threads.pc[t], "pl_tex_clear"))
                         EXCEPT !.failed = TRUE]
    /\ ThreadFrame

\* display.c:429-433
ThreadRender(t) ==
    /\ At(t, "pl_render_image")
    /\ \E ok \in BOOLEAN :
          threads' = [Goto(t, threads.pc[t] + 1) EXCEPT !.failed = ~ok]
    /\ ThreadFrame

\* display.c:437-438: the frame is cleared only when it failed
ThreadClear(t) ==
    /\ At(t, "pl_tex_clear")
    /\ threads' = Goto(t, threads.pc[t] + 1)
    /\ ThreadFrame

\* display.c:440-441
ThreadSubmit(t) ==
    /\ At(t, "pl_swapchain_submit_frame")
    /\ threads' = [Goto(t, threads.pc[t] + 1) EXCEPT
                      !.fbo = NULL, !.failed = FALSE]
    /\ ThreadFrame

\* display.c:451
ThreadSwap(t) ==
    /\ At(t, "pl_swapchain_swap_buffers")
    /\ threads' = Goto(t, threads.pc[t] + 1)
    /\ ThreadFrame

\* display.c:477-478: the size the notification carries
ThreadReadSize(t) ==
    /\ At(t, "vd->cfg->display")
    /\ \E s \in Sizes :
          threads' = [Goto(t, threads.pc[t] + 1) EXCEPT !.want = s]
    /\ ThreadFrame

\* display.c:482: the swap chain takes the size asked for, or keeps its own
ThreadResize(t) ==
    /\ At(t, "pl_swapchain_resize")
    /\ \E s \in {threads.want, threads.size} :
          threads' = [Goto(t, threads.pc[t] + 1) EXCEPT !.size = s]
    /\ ThreadFrame

\* display.c:231, 443, 452, 483
ThreadRelease(t) ==
    /\ At(t, "vlc_placebo_ReleaseCurrent")
    /\ threads' = [Goto(t, threads.pc[t] + 1) EXCEPT !.held[t] = FALSE]
    /\ ThreadFrame

InitThreads ==
    /\ phase = "open"
    /\ sys = SysZero
    /\ heap = HeapZero
    /\ current = FALSE
    /\ log = <<>>
    /\ last = LastZero
    /\ fmt = FmtZero
    /\ ncalls = 0
    /\ threads = ThreadsZero

NextThreads ==
    \E t \in Threads :
        \/ ThreadMakeCurrent(t)
        \/ ThreadStartFrame(t)
        \/ ThreadUpload(t)
        \/ ThreadRender(t)
        \/ ThreadClear(t)
        \/ ThreadSubmit(t)
        \/ ThreadSwap(t)
        \/ ThreadReadSize(t)
        \/ ThreadResize(t)
        \/ ThreadRelease(t)

SpecThreads == InitThreads /\ [][NextThreads]_vars

----------------------------------------------------------------------------
(* Frames one after the other on an open display: PictureRender called     *)
(* again and again, each call remembering how the frame before it ended.   *)

\* what vlc_placebo_ChromaLoc may give for a format (display.c:154-155)
ChromaLocs == {"PL_CHROMA_UNKNOWN", "PL_CHROMA_LEFT"}

\* Open from the zeroed sys (display.c:107-178)
Opened(in) ==
    OpenBody([sys |-> SysZero, heap |-> HeapZero, fmt |-> FmtZero,
              cur |-> FALSE, log |-> <<>>, crashed |-> FALSE,
              failed |-> FALSE, num_regions |-> 0], in)

\* How the last entry point ended, if it was a frame: "skipped" (no session
\* or no slot), "upload", "overlay storage", "dispatch" (the Failed frames),
\* "submit" (a frame that went well and was not accepted), or "good".
FrameEnd ==
    IF last.fn # "PictureRender" THEN "none"
    ELSE IF ~(\E i \in DOMAIN log : log[i].op = "pl_swapchain_start_frame" /\ log[i].ok)
    THEN "skipped"
    ELSE IF \E i \in DOMAIN log : log[i].op = "pl_upload_plane" /\ ~log[i].ok
    THEN "upload"
    ELSE IF \E i \in DOMAIN log :
                log[i].op \in {"realloc:overlays", "realloc:overlay_tex"} /\ ~log[i].ok
    THEN "overlay storage"
    ELSE IF \E i \in DOMAIN log : log[i].op = "pl_render_image" /\ ~log[i].ok
    THEN "dispatch"
    ELSE IF \E i \in DOMAIN log : log[i].op = "pl_swapchain_submit_frame" /\ ~log[i].ok
    THEN "submit"
    ELSE "good"

InitFrames ==
    \E o \in {o \in OpenInputs : o.format = "input" /\ o.lut_file = NULL
                                 /\ o.shader_file = NULL},
       loc \in ChromaLocs :
        LET in == [o EXCEPT !.chroma_loc = loc]
            c == Opened(in)
        IN  /\ in.calloc /\ ~c.failed /\ ~c.crashed
            /\ phase = "open"
            /\ sys = c.sys
            /\ heap = c.heap
            /\ current = c.cur
            /\ log = c.log
            /\ last = [LastZero EXCEPT !.fn = "Open", !.ret = "VLC_SUCCESS",
                                       !.ok = TRUE]
            /\ fmt = c.fmt
            /\ ncalls = 0
            /\ threads = ThreadsZero

\* display.c:217-444, once more
NextFrame ==
    /\ phase = "open"
    /\ ncalls < MaxFrames
    /\ \E in \in RenderInputs(sys, fmt.planes) :
          LET c == PictureRenderBody(Ctx, in)
          IN  /\ sys' = c.sys
              /\ heap' = c.heap
              /\ current' = c.cur
              /\ log' = c.log
              /\ phase' = IF c.crashed THEN "crashed" ELSE phase
              /\ last' = [LastZero EXCEPT
                             !.fn = "PictureRender", !.ret = "void",
                             !.ok = ~c.failed,
                             !.prev = [NoCall EXCEPT !.fn = last.fn,
                                                     !.arg = FrameEnd]]
    /\ ncalls' = ncalls + 1
    /\ UNCHANGED <<fmt, threads>>

NextFrames == NextFrame

SpecFrames == InitFrames /\ [][NextFrames]_vars

----------------------------------------------------------------------------
(* The target of a frame: the description the swap-chain frame gives, and   *)
(* the overrides of the configuration (display.c:271, 334-349, 843-848).   *)

\* enum pl_color_primaries, pl_color_transfer, pl_color_light: the unknown
\* value of each is its zero
Primaries == {"PL_COLOR_PRIM_UNKNOWN", "PL_COLOR_PRIM_BT_709", "PL_COLOR_PRIM_BT_2020"}
Transfers == {"PL_COLOR_TRC_UNKNOWN", "PL_COLOR_TRC_SRGB", "PL_COLOR_TRC_PQ"}
Lights == {"PL_COLOR_LIGHT_UNKNOWN", "PL_COLOR_LIGHT_DISPLAY"}

\* sig_avg in hundredths
SigAvgs == {0, 25, 100}

\* the sample and colour depths of a frame
BitEncodings ==
    {[sample_depth |-> 8, color_depth |-> 8],
     [sample_depth |-> 16, color_depth |-> 10],
     [sample_depth |-> 10, color_depth |-> 10]}

\* pl_render_target_from_swapchain (display.c:271): what the frame says
FrameTargets ==
    {[color |-> [primaries |-> p, transfer |-> t, light |-> l, sig_avg |-> a],
      bits |-> b] :
        p \in Primaries, t \in Transfers, l \in Lights,
        a \in {0, 25}, b \in BitEncodings}

\* pl-target-prim, pl-target-trc, pl-target-avg (0.0 to 1.0) and
\* pl-dither-depth (0 to 16) (display.c:648-650, 687-688, 698-699)
TargetOptions ==
    {[primaries |-> p, transfer |-> t, sig_avg |-> a, dither_depth |-> d] :
        p \in Primaries, t \in Transfers, a \in SigAvgs, d \in {0, 8, 10}}

\* display.c:843-848: what UpdateParams keeps of the options
SysTarget(o) ==
    [dither_depth |-> o.dither_depth,
     target |-> [primaries |-> o.primaries, transfer |-> o.transfer,
                 sig_avg |-> o.sig_avg]]

\* An override that writes every field, set or not
TargetOverride_Unconditional(target, s) ==
    [color |-> [primaries |-> s.target.primaries,
                transfer |-> s.target.transfer,
                light |-> "PL_COLOR_LIGHT_UNKNOWN",
                sig_avg |-> s.target.sig_avg],
     bits |-> [sample_depth |-> s.dither_depth,
               color_depth |-> (target.bits.color_depth \div target.bits.sample_depth)
                                   * s.dither_depth]]

\* display.c:334-349. The scale is the quotient of two ints.
TargetOverride(target, s) ==
    LET t1 == IF s.target.primaries # "PL_COLOR_PRIM_UNKNOWN"
              THEN [target EXCEPT !.color.primaries = s.target.primaries]
              ELSE target
        t2 == IF s.target.transfer # "PL_COLOR_TRC_UNKNOWN"
              THEN [t1 EXCEPT !.color.transfer = s.target.transfer,
                              !.color.light = "PL_COLOR_LIGHT_UNKNOWN"]
              ELSE t1
        t3 == IF s.target.sig_avg > 0
              THEN [t2 EXCEPT !.color.sig_avg = s.target.sig_avg]
              ELSE t2
        scale == t3.bits.color_depth \div t3.bits.sample_depth
    IN  IF s.dither_depth > 0
        THEN [t3 EXCEPT !.bits = [sample_depth |-> s.dither_depth,
                                  color_depth |-> scale * s.dither_depth]]
        ELSE t3

InitTarget ==
    /\ phase = "target"
    /\ sys = SysZero
    /\ heap = HeapZero
    /\ current = FALSE
    /\ log = <<>>
    /\ last = LastZero
    /\ fmt = FmtZero
    /\ ncalls = 0
    /\ threads = ThreadsZero

ApplyTargetOverride ==
    /\ phase = "target"
    /\ last.fn = "none"
    /\ \E t \in FrameTargets, o \in TargetOptions :
          last' = [LastZero EXCEPT
                     !.fn = "TargetOverride",
                     !.arg = [target |-> t, options |-> o],
                     !.ret = TargetOverride(t, SysTarget(o)), !.ok = TRUE]
    /\ UNCHANGED <<phase, sys, heap, current, log, fmt, ncalls, threads>>

NextTarget == ApplyTargetOverride

SpecTarget == InitTarget /\ [][NextTarget]_vars

----------------------------------------------------------------------------
(* The placement of the picture on the surface of a frame, flipped or not   *)
(* (display.c:274-332).                                                     *)

VerticalAligns ==
    {"VLC_VIDEO_ALIGN_TOP", "VLC_VIDEO_ALIGN_CENTER", "VLC_VIDEO_ALIGN_BOTTOM"}
HorizontalAligns ==
    {"VLC_VIDEO_ALIGN_LEFT", "VLC_VIDEO_ALIGN_CENTER", "VLC_VIDEO_ALIGN_RIGHT"}

\* display.c:278-285: on a flipped frame top and bottom change places
FlipAlign(va, flipped) ==
    IF ~flipped THEN va
    ELSE CASE va = "VLC_VIDEO_ALIGN_TOP" -> "VLC_VIDEO_ALIGN_BOTTOM"
           [] va = "VLC_VIDEO_ALIGN_BOTTOM" -> "VLC_VIDEO_ALIGN_TOP"
           [] OTHER -> va

\* vout_display_PlacePicture: a picture scaled to w by h on a display of W by
\* H, put where the alignment says.
PlacePicture(w, h, W, H, ha, va) ==
    [x |-> CASE ha = "VLC_VIDEO_ALIGN_LEFT" -> 0
             [] ha = "VLC_VIDEO_ALIGN_RIGHT" -> W - w
             [] OTHER -> (W - w) \div 2,
     y |-> CASE va = "VLC_VIDEO_ALIGN_TOP" -> 0
             [] va = "VLC_VIDEO_ALIGN_BOTTOM" -> H - h
             [] OTHER -> (H - h) \div 2,
     width |-> w, height |-> h]

\* display.c:274-332: the crop of the target. in: the size of the scaled
\* picture, the alignment of the configuration, the flip state of the frame.
TargetRect(in, W, H) ==
    LET place == FlipPlace(PlacePicture(in.w, in.h, W, H, in.ha,
                                        FlipAlign(in.va, in.flipped)),
                           in.flipped, H)
    IN  [x0 |-> place.x, y0 |-> place.y,
         x1 |-> place.x + place.width, y1 |-> place.y + place.height]

PlaceInputs ==
    {[w |-> w, h |-> h, ha |-> ha, va |-> va, flipped |-> f] :
        w \in 1..SurfW, h \in 1..SurfH, ha \in HorizontalAligns,
        va \in VerticalAligns, f \in BOOLEAN}

InitPlace ==
    /\ phase = "place"
    /\ sys = SysZero
    /\ heap = HeapZero
    /\ current = FALSE
    /\ log = <<>>
    /\ last = LastZero
    /\ fmt = FmtZero
    /\ ncalls = 0
    /\ threads = ThreadsZero

ApplyPlacement ==
    /\ phase = "place"
    /\ last.fn = "none"
    /\ \E in \in PlaceInputs :
          last' = [LastZero EXCEPT
                     !.fn = "TargetRect", !.arg = in,
                     !.ret = TargetRect(in, SurfW, SurfH), !.ok = TRUE]
    /\ UNCHANGED <<phase, sys, heap, current, log, fmt, ncalls, threads>>

NextPlace == ApplyPlacement

SpecPlace == InitPlace /\ [][NextPlace]_vars

----------------------------------------------------------------------------
(* The life of one display *)

Next == Open \/ PictureRender \/ PictureDisplay \/ Control \/ Close

Spec == Init /\ [][Next]_vars

----------------------------------------------------------------------------
(* Properties *)

EntryPoints == {"Open", "Close", "PictureRender", "PictureDisplay", "Control"}
Loaders == {"LoadCustomLUT", "LoadUserShader"}

\* the log has a call of op with result ok
Did(op, ok) == \E i \in DOMAIN log : log[i].op = op /\ log[i].ok = ok

CountDid(op, ok) == Cardinality({i \in DOMAIN log : log[i].op = op /\ log[i].ok = ok})

\* C1: every entry point that returns has released the session as often as
\* it acquired it, and does not return holding it current.
C1_AcquireReleasePaired ==
    (last.fn \in EntryPoints /\ last.ret # "crash")
        => /\ ~current
           /\ CountDid("vlc_placebo_MakeCurrent", TRUE)
                 = CountOp(log, "vlc_placebo_ReleaseCurrent")

\* The backend calls that take the GPU, the swap-chain or the renderer.
GpuCalls ==
    {"pl_renderer_create", "pl_renderer_destroy", "pl_swapchain_start_frame",
     "pl_upload_plane", "pl_upload_plane:overlay", "pl_tex_clear",
     "pl_render_image", "pl_swapchain_submit_frame", "pl_swapchain_swap_buffers",
     "pl_swapchain_resize", "pl_tex_destroy", "pl_mpv_user_shader_parse"}

\* C2: every backend call on the GPU, the swap-chain or the renderer runs
\* while the session is current (a destroy of a renderer that does not
\* exist takes no handle).
C2_GpuCallsWhileCurrent ==
    \A i \in DOMAIN log :
        (/\ log[i].op \in GpuCalls
         /\ log[i].op = "pl_renderer_destroy" => log[i].ok)
            => log[i].cur

\* the cache a loader works on: resource and path
CacheOf(fn, cs) ==
    IF fn = "LoadCustomLUT" THEN <<cs.lut, cs.lut_path>> ELSE <<cs.hook, cs.hook_path>>

LiveOf(fn, cs) == IF fn = "LoadCustomLUT" THEN cs.lut_live ELSE cs.hook_live

Now == Caches(sys, heap)

\* C3: a load of a new path that fails leaves the cached resource and the
\* cached path as they were.
C3_FailedLoadKeepsCache ==
    (/\ last.fn \in Loaders
     /\ last.ret # "crash"
     /\ Did("vlc_fopen", TRUE) \/ Did("vlc_fopen", FALSE)
     /\ ~last.ok)
        => CacheOf(last.fn, Now) = CacheOf(last.fn, last.pre)

\* the last two calls were of one loader with one non-empty path, and the
\* first of them loaded the resource
LoadedTwice ==
    /\ last.fn \in Loaders
    /\ last.prev.fn = last.fn
    /\ last.prev.arg = last.arg
    /\ last.arg \in Files
    /\ last.prev.ok

\* C4: of two loads in a row of one non-empty path, the first succeeding,
\* the first reads the file once and parses once, and the second makes no
\* call at all and leaves cache and heap as they were.
C4_RepeatedLoadIsNoOp ==
    LoadedTwice
        => /\ last.prev.reads = 1
           /\ last.prev.parses = 1
           /\ log = <<>>
           /\ Now = last.pre
           /\ last.same

C4_Witness == LoadedTwice /\ last.ret = "void"

\* C5: after a load of an empty or absent path the cache is empty, resource
\* and path, so that a load of the path cached before is a real load.
C5_EmptyPathClearsCache ==
    /\ (last.fn \in Loaders /\ last.arg \in {NULL, ""})
          => CacheOf(last.fn, Now) = <<NULL, NULL>>
    /\ (/\ last.fn \in Loaders
        /\ last.prev.fn = last.fn
        /\ last.prev.arg \in {NULL, ""}
        /\ last.arg \in Files)
          => Did("vlc_fopen", TRUE) \/ Did("vlc_fopen", FALSE)

\* C6: a load that succeeds leaves the new resource and path cached and the
\* old resource freed: a cache never has more than one object allocated.
C6_ReplaceReleasesOld ==
    /\ (last.fn \in Loaders /\ last.ok)
          => /\ CacheOf(last.fn, Now) = <<last.arg, last.arg>>
             /\ LiveOf(last.fn, Now) = 1
    /\ heap.lut <= 1
    /\ heap.hook <= 1

\* PictureRender got the session and asked for a frame: granted or declined
Asked(granted) ==
    last.fn = "PictureRender" /\ Did("pl_swapchain_start_frame", granted)

Declined == Asked(FALSE)
Granted == Asked(TRUE)

\* C7: a frame the swap-chain declines is skipped before any GPU work: no
\* upload, no clear, no render, no submit, no error message, sys and heap as
\* they were, and the session released.
C7_DeclinedFrameSkipped ==
    Declined
        => /\ Ops(log) = {"vlc_placebo_MakeCurrent", "pl_swapchain_start_frame",
                          "vlc_placebo_ReleaseCurrent"}
           /\ Len(log) = 3
           /\ last.same
           /\ ~current

C7_Witness == Declined /\ \E i \in 0..(NumPlaneTex - 1) : sys.plane_tex[i]

RedCleared == \E i \in DOMAIN log : log[i].op = "pl_tex_clear" /\ log[i].col = Red
PlaneUploadFailed == Did("pl_upload_plane", FALSE)
GrowFailed == Did("realloc:overlays", FALSE) \/ Did("realloc:overlay_tex", FALSE)
DispatchFailed == Did("pl_render_image", FALSE)

\* the calls that write to the target of the frame
TargetWrites == {"pl_tex_clear", "pl_render_image"}

\* the red clear comes once, and the submission comes right after it
RedClearIsLastWrite ==
    \A i \in DOMAIN log :
        (log[i].op = "pl_tex_clear" /\ log[i].col = Red)
            => /\ i < Len(log)
               /\ log[i + 1].op = "pl_swapchain_submit_frame"
               /\ \A j \in DOMAIN log : j > i => log[j].op \notin TargetWrites

\* C8 as stated: a granted frame is cleared to red exactly when a plane
\* upload or the render dispatch failed, and the clear is the last write
\* before the submission.
C8_RedIffUploadOrDispatchFailed ==
    Granted
        => /\ RedCleared <=> (PlaneUploadFailed \/ DispatchFailed)
           /\ RedClearIsLastWrite

\* C8 amended: a granted frame is cleared to red exactly when a plane
\* upload, the growth of the overlay storage or the render dispatch failed,
\* and the clear is the last write before the submission.
C8_RedIffFailed ==
    Granted
        => /\ RedCleared <=> (PlaneUploadFailed \/ GrowFailed \/ DispatchFailed)
           /\ RedClearIsLastWrite

\* a red clear after the compositing had gone as far as the render call
C8_Witness ==
    Granted /\ RedCleared /\ DispatchFailed
            /\ \E i \in DOMAIN log :
                  log[i].op = "pl_tex_clear" /\ log[i].col = TransparentBlack

\* C9: a granted frame is submitted exactly once before PictureRender
\* returns, with the session current, whatever failed before; a submission
\* that fails is not tried again.
C9_OneSubmitPerGrantedFrame ==
    Granted
        => /\ CountOp(log, "pl_swapchain_submit_frame") = 1
           /\ \A i \in DOMAIN log :
                 log[i].op = "pl_swapchain_submit_frame" => log[i].cur

\* a frame whose overlay storage could not grow, and whose submission failed
C9_Witness ==
    Granted /\ GrowFailed /\ Did("pl_swapchain_submit_frame", FALSE)

\* the upload of plane k failed in the last PictureRender
PlaneFailedAt(k) ==
    /\ last.fn = "PictureRender"
    /\ \E i \in DOMAIN log :
          log[i].op = "pl_upload_plane" /\ log[i].idx = k /\ ~log[i].ok

\* C10: when the upload of plane k fails, the planes uploaded are 0..k and
\* no more, no overlay is touched, there is no transparent clear and no
\* render; the frame is cleared to red and submitted, and the display stays
\* open with its backend and renderer.
C10_PlaneFailureSkipsComposition ==
    \A k \in 0..(NumPlaneTex - 1) :
        PlaneFailedAt(k)
            => /\ {log[i].idx : i \in {j \in DOMAIN log : log[j].op = "pl_upload_plane"}}
                     = 0..k
               /\ CountOp(log, "pl_upload_plane") = k + 1
               /\ Ops(log) \cap {"overlay_desc", "pl_upload_plane:overlay",
                                 "realloc:overlays", "realloc:overlay_tex",
                                 "pl_render_image"} = {}
               /\ ~\E i \in DOMAIN log :
                      log[i].op = "pl_tex_clear" /\ log[i].col = TransparentBlack
               /\ RedCleared
               /\ CountOp(log, "pl_swapchain_submit_frame") = 1
               /\ phase = "open"
               /\ sys.pl = "alive"
               /\ sys.renderer = "alive"

\* plane 1 of a picture of three planes or more fails
C10_Witness == PlaneFailedAt(1) /\ fmt.planes >= 3

\* the upload of region k failed in the last PictureRender
RegionFailedAt(k) ==
    /\ last.fn = "PictureRender"
    /\ \E i \in DOMAIN log :
          log[i].op = "pl_upload_plane:overlay" /\ log[i].idx = k /\ ~log[i].ok

\* C11: when the upload of region i fails, the regions uploaded are 0..i
\* and no more, the render dispatch takes place with an overlay count of i,
\* and the frame is not failed by it: it is cleared to red only if the
\* dispatch fails.
C11_RegionFailureKeepsPrefix ==
    \A k \in 0..MaxRegions :
        RegionFailedAt(k)
            => /\ {log[i].idx : i \in {j \in DOMAIN log :
                                        log[j].op = "pl_upload_plane:overlay"}} = 0..k
               /\ CountOp(log, "pl_upload_plane:overlay") = k + 1
               /\ CountOp(log, "pl_render_image") = 1
               /\ \A i \in DOMAIN log :
                     log[i].op = "pl_render_image" => log[i].idx = k
               /\ RedCleared <=> DispatchFailed

\* the second region of a subpicture is rejected, and the frame is rendered
C11_Witness == RegionFailedAt(1) /\ Did("pl_render_image", TRUE)

\* the regions the subpicture of the last PictureRender had (-1: it had no
\* subpicture, or the frame did not come to it)
Requested ==
    IF last.fn = "PictureRender" /\ "subpicture:num_regions" \in Ops(log)
    THEN (CHOOSE e \in {log[i] : i \in DOMAIN log} :
              e.op = "subpicture:num_regions").idx
    ELSE -1

\* C12: the capacity of the overlay storage never decreases from one call
\* to the next, after a frame it is at least the regions the frame asked
\* for, and a frame that asks for no more than the capacity leaves it as it
\* was.
C12_CapacityNeverDecreases ==
    [][/\ sys'.num_overlays >= sys.num_overlays
       /\ sys'.num_overlays >= Requested'
       /\ Requested' <= sys.num_overlays => sys'.num_overlays = sys.num_overlays]_vars

\* the last PictureRender came to the compositing step
Composited == Granted /\ ~PlaneUploadFailed /\ ~GrowFailed

\* the crop of the target in the last PictureRender, and the flip state
Crop == (CHOOSE e \in {log[i] : i \in DOMAIN log} : e.op = "target.crop").col
Flipped == Did("frame.flipped", TRUE)

TransparentCleared ==
    \E i \in DOMAIN log :
        /\ log[i].op = "pl_tex_clear" /\ log[i].col = TransparentBlack
        /\ \A j \in DOMAIN log : log[j].op = "pl_render_image" => i < j

\* the crop covers the surface once its corners are put in order
CoversSurface(r) ==
    /\ (IF r[1] < r[3] THEN r[1] ELSE r[3]) = 0
    /\ (IF r[2] < r[4] THEN r[2] ELSE r[4]) = 0
    /\ (IF r[1] < r[3] THEN r[3] ELSE r[1]) = SurfW
    /\ (IF r[2] < r[4] THEN r[4] ELSE r[2]) = SurfH

\* C13: a frame that comes to the compositing step is cleared to
\* transparent black, before the render dispatch, exactly when its placement
\* with the corners in order is not the whole surface, flipped or not.
C13_ClearIffPartial ==
    Composited
        => /\ TransparentCleared <=> ~CoversSurface(Crop)
           /\ \A i \in DOMAIN log :
                 (log[i].op = "pl_tex_clear" /\ log[i].col = TransparentBlack)
                    => \E j \in DOMAIN log : j > i /\ log[j].op = "pl_render_image"

\* a placement that fills a flipped surface: the crop runs from the bottom
\* up, and there is no clear
C13_Witness ==
    /\ Composited /\ Flipped
    /\ Crop = <<0, SurfH, SurfW, 0>>
    /\ ~TransparentCleared

\* the descriptors of the last PictureRender: the region read and the
\* rectangle written for it
Descriptors ==
    {<<log[j - 1].col, log[j].col>> :
        j \in {i \in DOMAIN log : log[i].op = "overlay_desc"}}

\* C14: the rectangle of every overlay is the region's, moved to the
\* placement: x0 and x0 + width added to the placement's x, and y0 and
\* y0 + height added to the placement's y on an unflipped surface, taken
\* from the mirrored placement's y on a flipped one.
C14_OverlayRects ==
    (last.fn = "PictureRender" /\ "overlay_desc" \in Ops(log))
        => /\ \A j \in DOMAIN log :
                 log[j].op = "overlay_desc"
                    => /\ log[j - 1].op = "subpicture_region"
                       /\ log[j - 1].idx = log[j].idx
           /\ Flipped => Crop[2] > Crop[4]
           /\ \A d \in Descriptors :
                 LET x0 == d[1][1]
                     y0 == d[1][2]
                     w == d[1][3]
                     h == d[1][4]
                 IN  /\ d[2][1] = Crop[1] + x0
                     /\ d[2][3] = Crop[1] + x0 + w
                     /\ d[2][2] = IF Flipped THEN Crop[2] - y0 ELSE Crop[2] + y0
                     /\ d[2][4] = IF Flipped THEN Crop[2] - (y0 + h)
                                             ELSE Crop[2] + y0 + h

\* a region one line down on a flipped surface, under a placement that
\* leaves a band free
C14_Witness ==
    /\ last.fn = "PictureRender" /\ Flipped
    /\ Crop = <<0, SurfH - 1, SurfW, 0>>
    /\ <<<<1, 1, 2, 1>>, <<1, SurfH - 2, 3, SurfH - 3>>>> \in Descriptors

\* C15: in the parameters UpdateParams builds, debanding is set exactly
\* when the option is on and iterations or grain is positive, sigmoid when
\* its option is on, dithering when the method is not negative, the colour
\* mapping always, one hook when a shader is loaded and none otherwise, and
\* a custom scaler with no kernel is left empty whatever the other scaler.
C15_GroupsFollowOptions ==
        last.fn = "UpdateParams"
            => LET p == sys.params
                   cfg == last.arg
               IN  /\ p.deband_params # NULL
                       <=> (cfg.debanding /\ (cfg.iterations > 0 \/ cfg.grain > 0))
                   /\ p.deband_params \in {NULL, "&sys->deband"}
                   /\ p.sigmoid_params # NULL <=> cfg.sigmoid
                   /\ p.sigmoid_params \in {NULL, "&sys->sigmoid"}
                   /\ p.dither_params # NULL <=> cfg.dither # -1
                   /\ p.dither_params \in {NULL, "&sys->dither"}
                   /\ p.color_map_params = "&sys->color_map"
                   /\ p.num_hooks = (IF sys.hook # NULL THEN 1 ELSE 0)
                   /\ (cfg.up_custom /\ cfg.up_kernel = NULL) => p.upscaler = NULL
                   /\ (cfg.down_custom /\ cfg.down_kernel = NULL) => p.downscaler = NULL
                   /\ (cfg.up_custom /\ cfg.up_kernel # NULL)
                         => p.upscaler = "&sys->upscaler"
                   /\ (cfg.down_custom /\ cfg.down_kernel # NULL)
                         => p.downscaler = "&sys->downscaler"

\* debanding switched on with no iterations and no grain, under a library
\* whose default block has debanding on; a custom upscaler with no kernel
\* beside a custom downscaler with one; a shader loaded
C15_Witness ==
    /\ last.fn = "UpdateParams"
    /\ last.arg.debanding /\ last.arg.iterations = 0 /\ last.arg.grain = 0
    /\ last.arg.pl_default # NULL
    /\ last.arg.up_custom /\ last.arg.up_kernel = NULL
    /\ last.arg.down_custom /\ last.arg.down_kernel # NULL
    /\ sys.params.upscaler = NULL /\ sys.params.downscaler # NULL
    /\ sys.hook # NULL

\* C16: with a peak-detection period of zero the parameters carry no peak
\* detection, and with a positive period they carry the configured one.
C16_ZeroPeriodDisablesPeakDetect ==
    last.fn = "UpdateParams"
        => sys.params.peak_detect_params =
              (IF last.arg.peak_period > 0 THEN "&sys->peak_detect" ELSE NULL)

Resize == "VOUT_DISPLAY_CHANGE_DISPLAY_SIZE"

\* C17: Control with a change of the display size returns success, having
\* resized the swap-chain between acquisition and release when the session
\* could be acquired, and having done nothing more when it could not; with
\* a change of fill, aspect, crop or zoom it returns success and calls
\* nothing.
C17_GeometryChangesSucceed ==
    (last.fn = "Control" /\ last.arg \in GeometryQueries)
        => /\ last.ret = "VLC_SUCCESS"
           /\ last.same
           /\ ~current
           /\ last.arg # Resize => log = <<>>
           /\ (last.arg = Resize /\ Did("vlc_placebo_MakeCurrent", FALSE))
                 => Len(log) = 1
           /\ (last.arg = Resize /\ Did("vlc_placebo_MakeCurrent", TRUE))
                 => /\ Len(log) = 3
                    /\ log[2].op = "pl_swapchain_resize" /\ log[2].cur
                    /\ log[3].op = "vlc_placebo_ReleaseCurrent"

\* the swap-chain did not take the size asked for
C17_Witness ==
    /\ last.fn = "Control" /\ last.arg = Resize
    /\ Did("pl_swapchain_resize", FALSE)
    /\ last.ret = "VLC_SUCCESS"

\* C18: Control with a request that is not one of the five geometry changes
\* returns failure, without acquiring the session, without a call on the
\* GPU, and with sys and heap as they were.
C18_UnknownRequestFails ==
    (last.fn = "Control" /\ last.arg \notin GeometryQueries)
        => /\ last.ret = "VLC_EGENERIC"
           /\ Ops(log) \subseteq {"msg_Err"}
           /\ last.same
           /\ ~current

\* an unknown request on a display that has rendered a frame
C18_Witness ==
    /\ last.fn = "Control" /\ last.arg = "other"
    /\ last.ret = "VLC_EGENERIC"
    /\ sys.plane_tex[0]

\* the calls of Close that destroy what the backend owns, and those that
\* free the storage and the resources
Destroys == {"pl_tex_destroy", "pl_renderer_destroy"}
Frees ==
    {"free:overlays", "free:overlay_tex", "pl_lut_free", "free:lut_path",
     "pl_mpv_user_shader_destroy", "free:hook_path"}

\* the textures and the renderer are destroyed, each call with the session
\* current and before any release of storage
DestroyedWhileCurrent ==
    /\ 0..(NumPlaneTex - 1) \subseteq
          {log[i].idx : i \in {j \in DOMAIN log : log[j].op = "pl_tex_destroy"}}
    /\ CountOp(log, "pl_renderer_destroy") = 1
    /\ \A i \in DOMAIN log : log[i].op \in Destroys => log[i].cur
    /\ \A i, j \in DOMAIN log :
          (log[i].op \in Destroys /\ log[j].op \in Frees) => i < j

\* nothing the backend owns is left when the connection is released
NothingOwnedAlive ==
    /\ sys.renderer = "null"
    /\ \A i \in 0..(NumPlaneTex - 1) : ~sys.plane_tex[i]
    /\ ~heap.texLost

\* C19: every Close destroys the plane textures, the overlay textures and
\* the renderer with the session current, then frees the storage and the
\* resources, and releases the backend connection last, with no texture and
\* no renderer left alive.
C19_CloseDestroysThenReleases ==
    last.fn = "Close"
        => /\ DestroyedWhileCurrent
           /\ Frees \ {"free:overlays", "free:overlay_tex"} \subseteq Ops(log)
           /\ log[Len(log)].op = "vlc_placebo_Release"
           /\ CountOp(log, "vlc_placebo_Release") = 1
           /\ NothingOwnedAlive

\* the same of the executions of Close that acquire the session, on a
\* display whose overlay storage has always grown
CloseAcquired ==
    (last.fn = "Close" /\ Did("vlc_placebo_MakeCurrent", TRUE) /\ ~heap.blockLost)
        => /\ DestroyedWhileCurrent
           /\ log[Len(log)].op = "vlc_placebo_Release"
           /\ NothingOwnedAlive

\* the step of the last Open that failed
NoWindow == log # <<>> /\ log[1].op = "msg_Err"
OpenStepFailed ==
    /\ last.fn = "Open"
    /\ \/ NoWindow
       \/ Did("vlc_placebo_Create", FALSE)
       \/ Did("vlc_placebo_MakeCurrent", FALSE)
       \/ Did("pl_renderer_create", FALSE)

\* what UpdateParams and the loaders call
LoadingCalls ==
    {"pl_lut_free", "vlc_fopen", "fseek", "ftell", "rewind", "vlc_alloc", "fread",
     "fclose", "pl_lut_parse_cube", "pl_mpv_user_shader_parse"}

\* C20: an Open that finds no window, or whose backend creation, session
\* acquisition or renderer creation fails, returns failure with no renderer,
\* with the backend connection, if it was created, released once, and with
\* no parameter built and no resource loaded.
C20_FailedOpenCleansUp ==
    /\ OpenStepFailed
          => /\ last.ret = "VLC_EGENERIC"
             /\ sys.renderer = "null"
             /\ Did("vlc_placebo_Create", TRUE)
                   => (CountOp(log, "vlc_placebo_Release") = 1 /\ sys.pl = "released")
             /\ ~Did("vlc_placebo_Create", TRUE)
                   => (CountOp(log, "vlc_placebo_Release") = 0 /\ sys.pl = "null")
             /\ Ops(log) \cap LoadingCalls = {}
             /\ sys.params = SysZero.params
             /\ Caches(sys, heap) = Caches(SysZero, HeapZero)
    /\ (last.fn = "Open" /\ last.ret = "VLC_EGENERIC") => OpenStepFailed

\* the renderer could not be created on a backend that was
C20_Witness ==
    /\ last.fn = "Open" /\ Did("pl_renderer_create", FALSE)
    /\ last.ret = "VLC_EGENERIC"
    /\ sys.pl = "released"

\* the orientation o was applied n times
Applied(o, n) ==
    last.fn = "Orient" /\ last.arg.orientation = o /\ last.arg.times = n

\* C21 as stated: two horizontal flips, two vertical flips and four quarter
\* turns each give back the description they started from, rectangle and
\* rotation.
C21_OrientationRoundTrips ==
    /\ Applied("ORIENT_HFLIPPED", 2) => last.ret = last.arg.img
    /\ Applied("ORIENT_VFLIPPED", 2) => last.ret = last.arg.img
    /\ Applied("ORIENT_ROTATED_90", 4) => last.ret = last.arg.img

\* C21 amended: two horizontal flips and two vertical flips give back the
\* description they started from; a quarter turn leaves the rectangle and
\* sets the rotation to a quarter turn, so that four of them give back the
\* rectangle and leave the rotation at one quarter turn.
C21_FlipsRoundTripRotationIsSet ==
    /\ Applied("ORIENT_HFLIPPED", 2) => last.ret = last.arg.img
    /\ Applied("ORIENT_VFLIPPED", 2) => last.ret = last.arg.img
    /\ Applied("ORIENT_ROTATED_90", 4)
          => /\ last.ret.crop = last.arg.img.crop
             /\ last.ret.rotation = "PL_ROTATION_90"

\* four quarter turns of a description with an offset
C21_Witness ==
    /\ Applied("ORIENT_ROTATED_90", 4)
    /\ last.arg.img.crop.x0 = 1
    /\ last.ret.rotation = "PL_ROTATION_90"

\* C22: with the session taken as a lock that is not reentrant, the vout
\* thread and the window thread never hold the session together, never are
\* both between an acquisition and its release, and the swap chain is never
\* about to be resized while a frame is open (started and not yet submitted).
Inside(t) == ~At(t, "vlc_placebo_MakeCurrent") /\ ~At(t, "vd->cfg->display")

C22_NoInterleaving ==
    /\ ~(threads.held["vout"] /\ threads.held["window"])
    /\ ~(Inside("vout") /\ Inside("window"))
    /\ At("window", "pl_swapchain_resize") => threads.fbo = NULL

\* a frame is open on a swap chain that the window thread resized before,
\* while the window thread is about to ask for the session again
C22_Witness ==
    /\ threads.held["vout"]
    /\ threads.fbo # NULL
    /\ threads.fbo # ThreadsZero.size
    /\ At("vout", "pl_render_image")
    /\ At("window", "vlc_placebo_MakeCurrent")

\* the backend connection and the renderer are alive, the display is open
StillAlive == phase = "open" /\ sys.pl # "null" /\ sys.renderer # "null"

\* the frames that ended as Failed, and the ones not accepted
FailedEnds == {"upload", "overlay storage", "dispatch", "submit"}

\* C23: after a frame that failed in an upload, in the overlay storage or in
\* the dispatch, or that was not accepted on submission, the backend
\* connection and the renderer are alive and the display is open; and the
\* frame after it, when its uploads and its dispatch go well, gets no red
\* clear, is rendered once, submitted once, and releases the session.
C23_FrameErrorContained ==
    /\ FrameEnd \in FailedEnds => StillAlive
    /\ (/\ last.fn = "PictureRender"
        /\ last.prev.arg \in FailedEnds
        /\ FrameEnd \in {"good", "submit"})
       => /\ ~RedCleared
          /\ CountDid("pl_render_image", TRUE) = 1
          /\ CountOp(log, "pl_swapchain_submit_frame") = 1
          /\ ~current
          /\ StillAlive

\* a frame that went well right after a frame that failed in the dispatch
C23_Witness ==
    /\ last.fn = "PictureRender"
    /\ last.prev.arg = "dispatch"
    /\ FrameEnd = "good"

Shifts == {i \in DOMAIN log : log[i].op = "pl_chroma_location_offset"}
Uploaded == {i \in DOMAIN log : log[i].op = "pl_upload_plane" /\ log[i].ok}

\* C25: a plane is shifted only right after its own upload succeeded, only
\* when the chroma siting is known, and only if it is plane 1 or plane 2;
\* with a known siting every uploaded plane 1 or 2 is shifted; a format
\* that is not YUV has an unknown siting, and then nothing is shifted.
C25_ChromaShiftOnlyChromaPlanes ==
    last.fn = "PictureRender"
        => /\ \A i \in Shifts :
                 /\ log[i].idx \in {1, 2}
                 /\ sys.yuv_chroma_loc # "PL_CHROMA_UNKNOWN"
                 /\ i > 1
                 /\ log[i - 1].op = "pl_upload_plane"
                 /\ log[i - 1].ok
                 /\ log[i - 1].idx = log[i].idx
           /\ \A i \in Uploaded :
                 (sys.yuv_chroma_loc # "PL_CHROMA_UNKNOWN" /\ log[i].idx \in {1, 2})
                     => (i + 1) \in Shifts
           /\ ~IsYUV(fmt.chroma) => sys.yuv_chroma_loc = "PL_CHROMA_UNKNOWN"
           /\ sys.yuv_chroma_loc = "PL_CHROMA_UNKNOWN" => Shifts = {}

\* a picture of four planes and known siting, all uploaded, two shifted
C25_Witness ==
    /\ last.fn = "PictureRender"
    /\ sys.yuv_chroma_loc = "PL_CHROMA_LEFT"
    /\ {log[i].idx : i \in Uploaded} = 0..3
    /\ {log[i].idx : i \in Shifts} = {1, 2}

\* a picture of known siting whose plane 1 was rejected: plane 1 not shifted
C25_WitnessRejected ==
    /\ last.fn = "PictureRender"
    /\ sys.yuv_chroma_loc = "PL_CHROMA_LEFT"
    /\ PlaneFailedAt(1)
    /\ Shifts = {}

\* C26: when PictureRender submitted no frame (the session was not acquired
\* or the slot was declined), the PictureDisplay that follows it does not
\* swap buffers.
C26_NoSwapAfterSkippedFrame ==
    [][(/\ last.fn = "PictureRender"
        /\ "pl_swapchain_submit_frame" \notin Ops(log)
        /\ last'.fn = "PictureDisplay")
       => "pl_swapchain_swap_buffers" \notin Ops(log')]_vars

\* C27: when the file of a shader cannot be opened, LoadUserShader returns
\* as LoadCustomLUT does: without a seek, a size query, a read or a close on
\* the stream that is not there, and without a call of the backend parser.
C27_ShaderOpenFailureHandled ==
    (last.fn \in Loaders /\ Did("vlc_fopen", FALSE))
        => /\ last.ret # "crash"
           /\ Ops(log) \cap {"fseek", "ftell", "rewind", "fread", "fclose",
                             "pl_lut_parse_cube", "pl_mpv_user_shader_parse"} = {}

\* C29: when a Close that acquired the session has returned, no texture is
\* left: no plane texture, no overlay texture in the array or out of reach,
\* and the descriptor array and the texture array have been freed, none of
\* their blocks out of reach.
C29_NoTextureLeaked ==
    (last.fn = "Close" /\ Did("vlc_placebo_MakeCurrent", TRUE))
        => /\ \A i \in 0..(NumPlaneTex - 1) : ~sys.plane_tex[i]
           /\ \A i \in DOMAIN sys.overlay_tex : sys.overlay_tex[i] # "tex"
           /\ ~heap.texLost
           /\ sys.overlays = 0
           /\ sys.overlay_tex = <<>>
           /\ ~heap.blockLost

\* the image of a rectangle under y -> h - y, corners in order
Mirror(r, h) == [x0 |-> r.x0, y0 |-> h - r.y1, x1 |-> r.x1, y1 |-> h - r.y0]

\* the crop the same picture gets on an unflipped frame with alignment va
Unflipped(va) ==
    TargetRect([last.arg EXCEPT !.flipped = FALSE, !.va = va], SurfW, SurfH)

\* C28: on a flipped frame the crop of the target, normalized, is the mirror
\* image of the crop the same picture, display and alignment get on an
\* unflipped frame; its height as written is negative and its horizontal
\* extent is that of the unflipped one.
C28_FlippedIsMirrorOfUnflipped ==
    (last.fn = "TargetRect" /\ last.arg.flipped)
        => /\ Normalize(last.ret) = Mirror(Unflipped(last.arg.va), SurfH)
           /\ last.ret.y1 - last.ret.y0 < 0
           /\ last.ret.x0 = Unflipped(last.arg.va).x0
           /\ last.ret.x1 = Unflipped(last.arg.va).x1

\* what the flipped crop is: the mirror image of the unflipped crop for the
\* alignment with top and bottom exchanged
FlippedIsMirrorOfOpposite ==
    (last.fn = "TargetRect" /\ last.arg.flipped)
        => /\ Normalize(last.ret) =
                 Mirror(Unflipped(FlipAlign(last.arg.va, TRUE)), SurfH)
           /\ last.ret.y1 - last.ret.y0 < 0

=============================================================================
